---- MODULE Spec2Model ----
(***************************************************************************)
(* Client-side state management of the collider platform front end:        *)
(*   - the Vuex store (frontend/src/store/index.js) and the Data Client    *)
(*     (frontend/src/services/api.service.js),                              *)
(*   - the EventDisplay view that drives it (views/EventDisplay.vue),       *)
(*   - the AnalysisDashboard view and its chart                            *)
(*     (views/AnalysisDashboard.vue),                                       *)
(*   - the EventDisplay3D component and its scene                          *)
(*     (components/EventDisplay3D.vue).                                     *)
(*                                                                         *)
(* The JavaScript event loop is modelled as it runs: every action below is *)
(* one macrotask (a user event, a lifecycle hook, the arrival of an HTTP   *)
(* response) run to completion, and the promise continuations it leaves    *)
(* behind are queued in microtasks and drained before the next macrotask.  *)
(***************************************************************************)
EXTENDS Integers, Sequences, FiniteSets, Bags, TLC

----------------------------------------------------------------------------
(* Bounds of the model *)

\* requests that may be in flight at the same time
MaxInFlight == 2
\* HTTP requests the store issues in one behaviour
MaxRequests == 3
\* histogram requests issued in one behaviour
MaxHistograms == 3
\* length of a detector configuration list returned by the backend
MaxConfigs == 2
\* length of an event list returned by the backend
MaxEvents == 2
\* instances of one view component created in one behaviour
MaxMounts == 2
\* frames one scene draws in one behaviour
MaxFrames == 3
\* particles of one event
MaxParticles == 2

----------------------------------------------------------------------------
(* Values *)

\* JavaScript null, for the fields that hold opaque values
Null == "null"

\* {event, kinematics} pairs, opaque to the store
EventPairs == {"evtA", "evtB"}

\* Statistics bodies, opaque to the store
StatBodies == {"statsA"}

\* messages of the errors the Data Client rejects with
Messages == {"Network Error", "Request failed with status code 500"}

\* a DetectorConfig: its id and its is_active flag; id 0 is "no config" (null)
NullConfig == [id |-> 0, is_active |-> FALSE]

RECURSIVE SeqsUpTo(_, _)
SeqsUpTo(S, n) ==
    IF n = 0 THEN {<<>>}
    ELSE LET shorter == SeqsUpTo(S, n - 1)
         IN  shorter \cup {Append(s, x) : s \in shorter, x \in S}

\* the DetectorConfig[] bodies of GET /config/detector: entry k has id k
ConfigLists ==
    UNION {[1..n -> BOOLEAN] : n \in 0..MaxConfigs}

ConfigOf(flags) == [k \in 1..Len(flags) |-> [id |-> k, is_active |-> flags[k]]]

\* a body is the parsed JSON: null, or a list
ConfigBodies ==
    {[isNull |-> TRUE, items |-> <<>>]}
        \cup {[isNull |-> FALSE, items |-> ConfigOf(f)] : f \in ConfigLists}

EventLists == SeqsUpTo(EventPairs, MaxEvents)

Ops == {"getEvent", "getEvents", "getStatistics", "getDetectorConfigs"}

\* what an HTTP request settles with: the parsed body, or an error with a message
Bodies(op) ==
    CASE op = "getEvent" -> EventPairs
      [] op = "getEvents" -> EventLists
      [] op = "getStatistics" -> StatBodies
      [] op = "getDetectorConfigs" -> ConfigBodies

NoBody(op) ==
    CASE op = "getEvent" -> Null
      [] op = "getEvents" -> <<>>
      [] op = "getStatistics" -> Null
      [] op = "getDetectorConfigs" -> [isNull |-> TRUE, items |-> <<>>]

Responses(op) ==
    {[ok |-> TRUE, body |-> b, message |-> ""] : b \in Bodies(op)}
        \cup {[ok |-> FALSE, body |-> NoBody(op), message |-> m] : m \in Messages}

----------------------------------------------------------------------------
(* State *)

VARIABLES
    state,       \* the Vuex state object
    pending,     \* HTTP requests in flight, in the order they were issued
    httpCount,   \* HTTP requests issued by the actions of the store so far
    last,        \* the request that settled last, and what it settled with
    microtasks,  \* promise continuations queued by the running macrotask
    unhandled,   \* a rejection or exception reached the top level
    dash,        \* the AnalysisDashboard instances created so far, by number
    timers,      \* the instances whose setTimeout of mounted() is pending
    histPending, \* histogram requests in flight, in the order they were issued
    histCount,   \* histogram requests issued so far
    histLast,    \* the histogram request that settled last
    charts,      \* the Chart objects constructed so far, by number
    scenes,      \* the EventDisplay3D instances created so far, by number
    resizeListeners, \* the window's 'resize' listeners, by instance
    rafQueue,    \* the animation frame callbacks pending, a bag of instances
    container,   \* the pixel size of the canvas container
    sceneLast    \* the handler of an EventDisplay3D that ran last

loopVars == <<httpCount, microtasks, unhandled>>

storeVars == <<state, pending, last>>

dashVars == <<dash, timers, histPending, histCount, histLast, charts>>

sceneVars == <<scenes, resizeListeners, rafQueue, container, sceneLast>>

vars == <<loopVars, storeVars, dashVars, sceneVars>>

NoDelivery ==
    [op |-> "none", caller |-> "none", ok |-> TRUE, body |-> Null,
     message |-> "", overtaken |-> FALSE]

----------------------------------------------------------------------------
(* store/index.js: mutations *)

SET_CURRENT_EVENT(s, event) == [s EXCEPT !.currentEvent = event]
SET_EVENTS(s, evts) == [s EXCEPT !.events = evts]
SET_STATISTICS(s, stats) == [s EXCEPT !.statistics = stats]
SET_DETECTOR_CONFIG(s, config) == [s EXCEPT !.detectorConfig = config]
SET_LOADING(s, l) == [s EXCEPT !.loading = l]
SET_ERROR(s, e) == [s EXCEPT !.error = e]

InitialState ==
    [currentEvent |-> Null, events |-> <<>>, statistics |-> Null,
     detectorConfig |-> NullConfig, loading |-> FALSE, error |-> Null]

----------------------------------------------------------------------------
(* store/index.js: actions.  Each action is split at its await: what runs  *)
(* when it is dispatched, and what runs when the Data Client call settles. *)

fetchEventStart(s) == SET_ERROR(SET_LOADING(s, TRUE), Null)

fetchEventSettled(s, r) ==
    LET tried == IF r.ok THEN SET_CURRENT_EVENT(s, r.body)
                 ELSE SET_ERROR(s, r.message)
    IN  SET_LOADING(tried, FALSE)

fetchEventsStart(s) == SET_ERROR(SET_LOADING(s, TRUE), Null)

\* mutant of fetchEventsSettled: loading is reset in the try block only
fetchEventsSettledNoFinally(s, r) ==
    IF r.ok THEN SET_LOADING(SET_EVENTS(s, r.body), FALSE)
    ELSE SET_ERROR(s, r.message)

fetchEventsSettled(s, r) ==
    LET tried == IF r.ok THEN SET_EVENTS(s, r.body)
                 ELSE SET_ERROR(s, r.message)
    IN  SET_LOADING(tried, FALSE)

fetchStatisticsStart(s) == s

\* mutant of fetchStatisticsSettled: a success clears the error
fetchStatisticsSettledClears(s, r) ==
    IF r.ok THEN SET_ERROR(SET_STATISTICS(s, r.body), Null)
    ELSE SET_ERROR(s, r.message)

\* mutant of fetchStatisticsSettled: loading is reset when the call has
\* settled, as fetchEvents does
fetchStatisticsSettledFinally(s, r) ==
    SET_LOADING(IF r.ok THEN SET_STATISTICS(s, r.body)
                ELSE SET_ERROR(s, r.message), FALSE)

fetchStatisticsSettled(s, r) ==
    IF r.ok THEN SET_STATISTICS(s, r.body) ELSE SET_ERROR(s, r.message)

\* configs.find(c => c.is_active): the first match scanning from index k,
\* undefined (no config) when there is none
RECURSIVE FindActiveFrom(_, _)
FindActiveFrom(configs, k) ==
    IF k > Len(configs) THEN NullConfig
    ELSE IF configs[k].is_active THEN configs[k]
    ELSE FindActiveFrom(configs, k + 1)

\* mutant of ActiveConfig: the first entry, whatever is active
ActiveConfigFirst(configs) == configs[1]

\* configs.find(c => c.is_active) || configs[0]
ActiveConfig(configs) ==
    LET found == FindActiveFrom(configs, 1)
    IN  IF found # NullConfig THEN found ELSE configs[1]

fetchDetectorConfigsStart(s) == s

\* mutant of fetchDetectorConfigsSettled: without a list to choose from,
\* or on failure, the configuration is reset to null
fetchDetectorConfigsSettledReset(s, r) ==
    IF r.ok
    THEN IF ~r.body.isNull /\ Len(r.body.items) > 0
         THEN SET_DETECTOR_CONFIG(s, ActiveConfig(r.body.items))
         ELSE SET_DETECTOR_CONFIG(s, NullConfig)
    ELSE SET_ERROR(SET_DETECTOR_CONFIG(s, NullConfig), r.message)

\* mutant of fetchDetectorConfigsSettled: loading is reset when the call
\* has settled, as fetchEvents does
fetchDetectorConfigsSettledFinally(s, r) ==
    SET_LOADING(IF r.ok
                THEN IF ~r.body.isNull /\ Len(r.body.items) > 0
                     THEN SET_DETECTOR_CONFIG(s, ActiveConfig(r.body.items))
                     ELSE s
                ELSE SET_ERROR(s, r.message), FALSE)

fetchDetectorConfigsSettled(s, r) ==
    IF r.ok
    THEN IF ~r.body.isNull /\ Len(r.body.items) > 0
         THEN SET_DETECTOR_CONFIG(s, ActiveConfig(r.body.items))
         ELSE s
    ELSE SET_ERROR(s, r.message)

Started(op, s) ==
    CASE op = "getEvent" -> fetchEventStart(s)
      [] op = "getEvents" -> fetchEventsStart(s)
      [] op = "getStatistics" -> fetchStatisticsStart(s)
      [] op = "getDetectorConfigs" -> fetchDetectorConfigsStart(s)

Settled(op, s, r) ==
    CASE op = "getEvent" -> fetchEventSettled(s, r)
      [] op = "getEvents" -> fetchEventsSettled(s, r)
      [] op = "getStatistics" -> fetchStatisticsSettled(s, r)
      [] op = "getDetectorConfigs" -> fetchDetectorConfigsSettled(s, r)

\* mutant of ActionOutcome: the catch block rethrows
ActionOutcomeRethrow(op, r) == IF r.ok THEN "fulfilled" ELSE "rejected"

\* how the promise of a dispatched action settles: every action wraps its
\* await in try/catch and the catch block does not rethrow
ActionOutcome(op, r) == "fulfilled"

----------------------------------------------------------------------------
(* api.service.js: one HTTP request per call *)

Request(op, caller) == [op |-> op, caller |-> caller, overtaken |-> FALSE]

\* a macrotask may start only once the microtask queue is drained
Idle == microtasks = <<>>

Microtask(task, outcome, inst) ==
    [task |-> task, outcome |-> outcome, inst |-> inst]

\* n more requests of the store may be issued
CanIssue(n) ==
    /\ Idle
    /\ Len(pending) + n <= MaxInFlight
    /\ httpCount + n <= MaxRequests

\* dispatch(action): runs the action up to its await, which issues the request
Dispatch(op, caller) ==
    /\ CanIssue(1)
    /\ state' = Started(op, state)
    /\ pending' = Append(pending, Request(op, caller))
    /\ httpCount' = httpCount + 1
    /\ UNCHANGED <<last, microtasks, unhandled>>

FetchEvent ==
    /\ Dispatch("getEvent", "none")
    /\ UNCHANGED <<dashVars, sceneVars>>

FetchEvents ==
    /\ Dispatch("getEvents", "none")
    /\ UNCHANGED <<dashVars, sceneVars>>

FetchStatistics ==
    /\ Dispatch("getStatistics", "none")
    /\ UNCHANGED <<dashVars, sceneVars>>

FetchDetectorConfigs ==
    /\ Dispatch("getDetectorConfigs", "none")
    /\ UNCHANGED <<dashVars, sceneVars>>

\* reqs without its entry i; of the requests issued before it, those at the
\* positions in same (they target the same field) are marked as overtaken
Overtake(reqs, i, same) ==
    [k \in 1..(Len(reqs) - 1) |->
        IF k < i
        THEN [reqs[k] EXCEPT !.overtaken = @ \/ k \in same]
        ELSE reqs[k + 1]]

\* the requests in flight for the same store action as request i
SameOp(i) == {k \in 1..Len(pending) : pending[k].op = pending[i].op}

\* mutant of Deliver: fenced by request identity, the response to a request
\* that a later request for the same field has overtaken is dropped
DeliverFenced(i) ==
    /\ Idle
    /\ i \in 1..Len(pending)
    /\ LET req == pending[i]
       IN  \E r \in Responses(req.op) :
             /\ state' = IF req.overtaken THEN SET_LOADING(state, FALSE)
                         ELSE Settled(req.op, state, r)
             /\ last' = [op |-> req.op, caller |-> req.caller, ok |-> r.ok,
                         body |-> r.body, message |-> r.message,
                         overtaken |-> req.overtaken]
             /\ microtasks' =
                    IF req.caller = "none" THEN <<>>
                    ELSE <<Microtask(req.caller, "fulfilled", 0)>>
             /\ unhandled' = unhandled
    /\ pending' = Overtake(pending, i, SameOp(i))
    /\ UNCHANGED <<httpCount, dashVars, sceneVars>>

\* the response to request i arrives and the awaiting action runs to its end
Deliver(i) ==
    /\ Idle
    /\ i \in 1..Len(pending)
    /\ LET req == pending[i]
       IN  \E r \in Responses(req.op) :
             /\ state' = Settled(req.op, state, r)
             /\ last' = [op |-> req.op, caller |-> req.caller, ok |-> r.ok,
                         body |-> r.body, message |-> r.message,
                         overtaken |-> req.overtaken]
             /\ microtasks' =
                    IF req.caller = "none" THEN <<>>
                    ELSE <<Microtask(req.caller, ActionOutcome(req.op, r), 0)>>
             /\ unhandled' =
                    (unhandled \/ (req.caller = "none"
                                     /\ ActionOutcome(req.op, r) = "rejected"))
    /\ pending' = Overtake(pending, i, SameOp(i))
    /\ UNCHANGED <<httpCount, dashVars, sceneVars>>

----------------------------------------------------------------------------
(* views/EventDisplay.vue *)

selectEvent(s, evt) == SET_CURRENT_EVENT(s, evt)

\* loadLatestEvent up to its await
LoadLatestEvent == Dispatch("getEvents", "loadLatestEvent")

\* the "Load Latest Event" button, disabled while loading
ClickLoadLatestEvent ==
    /\ ~state.loading
    /\ LoadLatestEvent
    /\ UNCHANGED <<dashVars, sceneVars>>

\* mutant of LoadLatestEventResume: events[0] is selected without the
\* length check, undefined when the list is empty
LoadLatestEventResumeUnguarded ==
    /\ microtasks # <<>>
    /\ Head(microtasks).task = "loadLatestEvent"
    /\ microtasks' = Tail(microtasks)
    /\ state' = selectEvent(state, IF Len(state.events) > 0
                                   THEN state.events[1] ELSE Null)
    /\ UNCHANGED <<unhandled, pending, httpCount, last, dashVars, sceneVars>>

\* mutant of LoadLatestEventResume: the first event is selected only when
\* the fetch succeeded
LoadLatestEventResumeOnSuccess ==
    /\ microtasks # <<>>
    /\ Head(microtasks).task = "loadLatestEvent"
    /\ microtasks' = Tail(microtasks)
    /\ state' = IF Len(state.events) > 0 /\ last.ok
                THEN selectEvent(state, state.events[1])
                ELSE state
    /\ UNCHANGED <<unhandled, pending, httpCount, last, dashVars, sceneVars>>

\* loadLatestEvent after its await
LoadLatestEventResume ==
    /\ microtasks # <<>>
    /\ Head(microtasks).task = "loadLatestEvent"
    /\ microtasks' = Tail(microtasks)
    /\ IF Head(microtasks).outcome = "fulfilled"
       THEN /\ state' = IF Len(state.events) > 0
                        THEN selectEvent(state, state.events[1])
                        ELSE state
            /\ UNCHANGED unhandled
       ELSE /\ unhandled' = TRUE
            /\ UNCHANGED state
    /\ UNCHANGED <<pending, httpCount, last, dashVars, sceneVars>>

\* a click on card k of the event list
ClickEventCard(k) ==
    /\ Idle
    /\ k \in 1..Len(state.events)
    /\ state' = selectEvent(state, state.events[k])
    /\ UNCHANGED <<pending, last, loopVars, dashVars, sceneVars>>

\* mounted(): fetchDetectorConfigs(), then loadLatestEvent(), in one task
EventDisplayMounted ==
    /\ CanIssue(2)
    /\ state' = Started("getEvents", Started("getDetectorConfigs", state))
    /\ pending' = pending \o <<Request("getDetectorConfigs", "none"),
                               Request("getEvents", "loadLatestEvent")>>
    /\ httpCount' = httpCount + 2
    /\ UNCHANGED <<last, microtasks, unhandled, dashVars, sceneVars>>

----------------------------------------------------------------------------
(* views/AnalysisDashboard.vue *)

\* the options of the variable select
HistVariables == {"invariant_mass", "missing_et"}

\* no histogram (null); a HistogramResult has at least one bin
NullHistogram == [bins |-> <<>>, values |-> <<>>, num_events |-> 0]

\* HistogramResult bodies of POST /analysis/histogram
HistBodies ==
    {[bins |-> <<0, 2>>, values |-> <<5>>, num_events |-> 120],
     [bins |-> <<0, 1, 4>>, values |-> <<3, 4>>, num_events |-> 7]}

HistResponses ==
    {[ok |-> TRUE, body |-> b, message |-> ""] : b \in HistBodies}
        \cup {[ok |-> FALSE, body |-> NullHistogram, message |-> m] :
                m \in Messages}

NoHistDelivery ==
    [inst |-> 0, ok |-> TRUE, body |-> NullHistogram, variable |-> "",
     overtaken |-> FALSE, late |-> FALSE]

\* data() of a new instance, mounted; chart 0 is null, canvas is whether
\* $refs.histogramCanvas is set
NewDashboard ==
    [mounted |-> TRUE, selectedVariable |-> "invariant_mass",
     histogramData |-> NullHistogram, chart |-> 0, loading |-> FALSE,
     error |-> Null, canvas |-> FALSE]

\* the object literal labels: its own properties
labels ==
    [invariant_mass |-> "Invariant Mass", missing_et |-> "Missing ET",
     leading_jet_pt |-> "Leading Jet pT", scalar_ht |-> "Scalar HT"]

\* properties every object literal inherits from Object.prototype, with the
\* text their values are displayed as; all of them are truthy
ObjectPrototype ==
    [key \in {"constructor", "toString", "valueOf", "hasOwnProperty",
              "__proto__"} |->
        CASE key = "constructor" -> "function Object() { [native code] }"
          [] key = "__proto__" -> "[object Object]"
          [] key = "toString" -> "function toString() { [native code] }"
          [] key = "valueOf" -> "function valueOf() { [native code] }"
          [] OTHER -> "function hasOwnProperty() { [native code] }"]

\* getVariableLabel(variable): labels[variable] || variable, the lookup
\* going through the own properties and then the prototype
getVariableLabel(variable) ==
    IF variable \in DOMAIN labels THEN labels[variable]
    ELSE IF variable \in DOMAIN ObjectPrototype THEN ObjectPrototype[variable]
    ELSE variable

\* the title template, `${label} Distribution (${num_events} events)`
Title(label, n) == <<label, " Distribution (", n, " events)">>

NoTitle == <<"", "", 0, "">>

\* x.toFixed(1) of x given in tenths, not negative: <<units, tenths digit>>
toFixed1(tenths) == <<tenths \div 10, tenths % 10>>

\* mutant of BinLabels: one label per bin edge
BinLabelsPerEdge(bins) ==
    [k \in 1..Len(bins) |-> toFixed1(10 * bins[k])]

\* binCenters.map(x => x.toFixed(1)), the centers being
\* (bins[i] + bins[i + 1]) / 2 for i from 0 up to bins.length - 2
BinLabels(bins) ==
    [k \in 1..(Len(bins) - 1) |-> toFixed1(5 * (bins[k] + bins[k + 1]))]

\* new Chart(ctx, {...}) built by instance i from its data c
NewChart(c, i) ==
    [live |-> TRUE, owner |-> i, data |-> c.histogramData.values,
     labels |-> BinLabels(c.histogramData.bins),
     label |-> getVariableLabel(c.selectedVariable),
     title |-> Title(getVariableLabel(c.selectedVariable),
                     c.histogramData.num_events)]

\* chart.destroy(), also on a chart that is destroyed already: the chart
\* releases its canvas and shows nothing
Destroy(cs, k) ==
    [cs EXCEPT ![k] = [live |-> FALSE, owner |-> cs[k].owner, data |-> <<>>,
                       labels |-> <<>>,
                       label |-> "", title |-> NoTitle]]

\* mutant of renderHistogram: without the check of $refs.histogramCanvas,
\* getContext is read from undefined when the canvas is not in the DOM
renderHistogramUnguarded(c, cs, i) ==
    LET cs1 == IF c.chart # 0 THEN Destroy(cs, c.chart) ELSE cs
    IN  IF c.histogramData = NullHistogram
        THEN [comp |-> c, charts |-> cs1, threw |-> FALSE]
        ELSE IF ~c.canvas
        THEN [comp |-> c, charts |-> cs1, threw |-> TRUE]
        ELSE [comp |-> [c EXCEPT !.chart = Len(cs1) + 1],
              charts |-> Append(cs1, NewChart(c, i)), threw |-> FALSE]

\* mutant of renderHistogram: the chart held is not destroyed
renderHistogramNoDestroy(c, cs, i) ==
    IF c.histogramData = NullHistogram \/ ~c.canvas
    THEN [comp |-> c, charts |-> cs, threw |-> FALSE]
    ELSE [comp |-> [c EXCEPT !.chart = Len(cs) + 1],
          charts |-> Append(cs, NewChart(c, i)), threw |-> FALSE]

\* renderHistogram() of instance i with data c and the charts cs: the data
\* and the charts after it, and whether it threw
renderHistogram(c, cs, i) ==
    LET cs1 == IF c.chart # 0 THEN Destroy(cs, c.chart) ELSE cs
    IN  IF c.histogramData = NullHistogram \/ ~c.canvas
        THEN [comp |-> c, charts |-> cs1, threw |-> FALSE]
        ELSE [comp |-> [c EXCEPT !.chart = Len(cs1) + 1],
              charts |-> Append(cs1, NewChart(c, i)), threw |-> FALSE]

\* err.message || 'Failed to generate histogram'
ErrorText(m) == IF m = "" THEN "Failed to generate histogram" ELSE m

generateHistogramStart(c) == [c EXCEPT !.loading = TRUE, !.error = Null]

\* generateHistogram() of instance i after its await settled with r
generateHistogramSettled(c, cs, i, r) ==
    LET rendered ==
            IF r.ok
            THEN renderHistogram([c EXCEPT !.histogramData = r.body], cs, i)
            ELSE [comp |-> c, charts |-> cs, threw |-> FALSE]
        caught ==
            IF ~r.ok THEN [rendered.comp EXCEPT !.error = ErrorText(r.message)]
            ELSE IF rendered.threw
                 THEN [rendered.comp EXCEPT !.error = "TypeError"]
            ELSE rendered.comp
    IN  [comp |-> [caught EXCEPT !.loading = FALSE], charts |-> rendered.charts]

MountedDash == {i \in 1..Len(dash) : dash[i].mounted}


\* generateHistogram() of instance i up to its await
GenerateHistogram(i) ==
    /\ Idle
    /\ Len(histPending) < MaxInFlight
    /\ histCount < MaxHistograms
    /\ dash' = [dash EXCEPT ![i] = generateHistogramStart(dash[i])]
    /\ histPending' = Append(histPending,
            [inst |-> i, variable |-> dash[i].selectedVariable,
             overtaken |-> FALSE])
    /\ histCount' = histCount + 1
    /\ UNCHANGED <<histLast, charts, loopVars, storeVars, sceneVars>>

\* the "Generate" button, disabled while loading
ClickGenerate ==
    \E i \in MountedDash :
        /\ ~dash[i].loading
        /\ GenerateHistogram(i)
        /\ UNCHANGED timers

\* the timeout set by mounted() expires, whether or not i is still mounted
TimerFires ==
    \E i \in timers :
        /\ GenerateHistogram(i)
        /\ timers' = timers \ {i}

\* v-model of the variable select
SelectVariable ==
    \E i \in MountedDash, v \in HistVariables :
        /\ Idle
        /\ v # dash[i].selectedVariable
        /\ dash' = [dash EXCEPT ![i].selectedVariable = v]
        /\ UNCHANGED <<timers, histPending, histCount, histLast, charts,
                       loopVars, storeVars, sceneVars>>

\* the histogram requests in flight for the same instance as request j
SameInstance(j) ==
    {k \in 1..Len(histPending) : histPending[k].inst = histPending[j].inst}

\* the response to histogram request j arrives; the re-render that Vue
\* schedules for the change of histogramData is queued behind it
DeliverHistogram(j) ==
    /\ Idle
    /\ j \in 1..Len(histPending)
    /\ LET req == histPending[j]
           i == req.inst
       IN  \E r \in HistResponses :
             LET done == generateHistogramSettled(dash[i], charts, i, r)
             IN  /\ dash' = [dash EXCEPT ![i] = done.comp]
                 /\ charts' = done.charts
                 /\ histLast' = [inst |-> i, ok |-> r.ok, body |-> r.body,
                                 variable |-> req.variable,
                                 overtaken |-> req.overtaken,
                                 late |-> ~dash[i].mounted]
                 /\ microtasks' = <<Microtask("flush", "fulfilled", i)>>
    /\ histPending' = Overtake(histPending, j, SameInstance(j))
    /\ UNCHANGED <<timers, histCount, httpCount, unhandled, storeVars,
                   sceneVars>>

\* Vue's scheduler patches the DOM: the canvas of v-if="histogramData"
DashFlush ==
    /\ microtasks # <<>>
    /\ Head(microtasks).task = "flush"
    /\ microtasks' = Tail(microtasks)
    /\ LET i == Head(microtasks).inst
       IN  dash' = [dash EXCEPT ![i].canvas =
                      dash[i].mounted /\ dash[i].histogramData # NullHistogram]
    /\ UNCHANGED <<timers, histPending, histCount, histLast, charts,
                   httpCount, unhandled, storeVars, sceneVars>>

\* a new instance is mounted: fetchStatistics(), and the timeout is set
DashMount ==
    /\ MountedDash = {}
    /\ Len(dash) < MaxMounts
    /\ Dispatch("getStatistics", "none")
    /\ dash' = Append(dash, NewDashboard)
    /\ timers' = timers \cup {Len(dash) + 1}
    /\ UNCHANGED <<histPending, histCount, histLast, charts, sceneVars>>

\* beforeUnmount(), then the template refs are cleared
DashUnmount ==
    \E i \in MountedDash :
        /\ Idle
        /\ charts' = IF dash[i].chart # 0 THEN Destroy(charts, dash[i].chart)
                     ELSE charts
        /\ dash' = [dash EXCEPT ![i].mounted = FALSE, ![i].canvas = FALSE]
        /\ UNCHANGED <<timers, histPending, histCount, histLast, loopVars,
                       storeVars, sceneVars>>

----------------------------------------------------------------------------
(* components/EventDisplay3D.vue *)

\* particles as the backend sends them, momenta in GeV: an electron, a
\* positron, an antimuon, a photon along the beam and a pion whose transverse
\* momentum is beyond the radius cap
ParticleKinds ==
    {[px |-> 3, py |-> 4, pz |-> 10, pdg_id |-> 11],
     [px |-> -3, py |-> 4, pz |-> -10, pdg_id |-> -11],
     [px |-> 8, py |-> -6, pz |-> 20, pdg_id |-> -13],
     [px |-> 0, py |-> 0, pz |-> 5, pdg_id |-> 22],
     [px |-> 60, py |-> 80, pz |-> -30, pdg_id |-> 211]}

\* the columnar arrays of an event's particles
Columnar(ps) ==
    [px |-> [k \in 1..Len(ps) |-> ps[k].px],
     py |-> [k \in 1..Len(ps) |-> ps[k].py],
     pz |-> [k \in 1..Len(ps) |-> ps[k].pz],
     pdg_id |-> [k \in 1..Len(ps) |-> ps[k].pdg_id]]

\* the event prop: null, an event without a particles field, or an event
NoEvent == [isNull |-> TRUE, hasParticles |-> FALSE, particles |-> Columnar(<<>>)]

BareEvent == [isNull |-> FALSE, hasParticles |-> FALSE, particles |-> Columnar(<<>>)]

EventProps ==
    {NoEvent, BareEvent}
        \cup {[isNull |-> FALSE, hasParticles |-> TRUE, particles |-> Columnar(ps)] :
                ps \in SeqsUpTo(ParticleKinds, MaxParticles)}

\* Math.abs, Math.min, and Math.sqrt on the perfect squares of ParticleKinds
Abs(n) == IF n < 0 THEN -n ELSE n

Min(a, b) == IF a < b THEN a ELSE b

Sqrt(n) == CHOOSE r \in 0..n : r * r = n

\* the samples of a track after the first
numPoints == 50

\* sample j of the track of a particle of transverse momentum pt, in
\* thousandths of a display unit: t = j / numPoints,
\* r = t * min(pt / 20, maxR) with maxR = 3.0, x = r cos(phi),
\* y = r sin(phi), z = t * pz / 10, pushed as (x, z, y)
TrackPoint(px, py, pz, pt, j) ==
    LET r == j * Min(pt, 60)
        x == IF pt = 0 THEN r ELSE (r * px) \div pt
        y == IF pt = 0 THEN 0 ELSE (r * py) \div pt
        z == 2 * j * pz
    IN  <<x, z, y>>

\* mutant of TrackPoints: the loop stops before j = numPoints
TrackPointsExclusive(px, py, pz) ==
    LET pt == Sqrt(px * px + py * py)
    IN  [k \in 1..numPoints |-> TrackPoint(px, py, pz, pt, k - 1)]

\* pt = sqrt(px^2 + py^2), then the points of the loop
\* for (j = 0; j <= numPoints; j++)
TrackPoints(px, py, pz) ==
    LET pt == Sqrt(px * px + py * py)
    IN  [k \in 1..(numPoints + 1) |-> TrackPoint(px, py, pz, pt, k - 1)]

\* mutant of SpeciesColor: the muon falls through to the default
SpeciesColorNoMuon(pdgId) ==
    IF pdgId = 11 THEN 16711680
    ELSE IF pdgId = 22 THEN 16776960
    ELSE 65535

\* the colour by particle type: 0xff0000, 0x00ff00, 0xffff00, 0x00ffff
SpeciesColor(pdgId) ==
    IF pdgId = 11 THEN 16711680
    ELSE IF pdgId = 13 THEN 65280
    ELSE IF pdgId = 22 THEN 16776960
    ELSE 65535

\* the THREE.Line and the THREE.Mesh of the origin marker of particle i
Track(particles, i) ==
    [kind |-> "line",
     color |-> SpeciesColor(Abs(particles.pdg_id[i])),
     points |-> TrackPoints(particles.px[i], particles.py[i], particles.pz[i])]

Marker(particles, i) ==
    [kind |-> "marker",
     color |-> SpeciesColor(Abs(particles.pdg_id[i])),
     points |-> <<<<0, 0, 0>>>>]

\* what the loop of renderEvent pushes: track and marker of each particle
Primitives(particles) ==
    [k \in 1..(2 * Len(particles.px)) |->
        IF k % 2 = 1 THEN Track(particles, (k + 1) \div 2)
        ELSE Marker(particles, k \div 2)]

\* the objects of a list, as the scene holds them
BagOf(seq) ==
    LET elems == {seq[k] : k \in 1..Len(seq)}
    IN  [x \in elems |-> Cardinality({k \in 1..Len(seq) : seq[k] = x})]

\* container sizes in pixels, <<clientWidth, clientHeight>>
Sizes == {<<800, 600>>, <<1200, 600>>}

RECURSIVE Gcd(_, _)
Gcd(a, b) == IF b = 0 THEN a ELSE Gcd(b, a % b)

\* clientWidth / clientHeight, as a fraction in lowest terms
Aspect(sz) == <<sz[1] \div Gcd(sz[1], sz[2]), sz[2] \div Gcd(sz[1], sz[2])>>

\* the detectorConfig prop: null, or a DetectorConfig
ConfigProps ==
    {NullConfig}
        \cup {[id |-> k, is_active |-> a] : k \in 1..MaxConfigs, a \in BOOLEAN}

\* the hard-coded default geometry, lengths in millimetres
DefaultGeometry ==
    [tracker |-> [inner_radius |-> 40, outer_radius |-> 1200, length |-> 5000],
     ecal |-> [inner_radius |-> 1300, outer_radius |-> 1800, length |-> 6000],
     hcal |-> [inner_radius |-> 1900, outer_radius |-> 3000, length |-> 7000]]

\* config.geometry of the DetectorConfig with id k: no two configurations
\* share a shell size, and none is the default
GeometryOf(config) ==
    [tracker |-> [inner_radius |-> 40, outer_radius |-> 1000 + 10 * config.id,
                  length |-> 4000 + 10 * config.id],
     ecal |-> [inner_radius |-> 1300, outer_radius |-> 1500 + 10 * config.id,
               length |-> 5500 + 10 * config.id],
     hcal |-> [inner_radius |-> 1900, outer_radius |-> 2500 + 10 * config.id,
               length |-> 6500 + 10 * config.id]]

\* the display axes; a THREE.CylinderGeometry extends along the y axis
AxisX == <<1, 0, 0>>
AxisY == <<0, 1, 0>>
AxisZ == <<0, 0, 1>>

CylinderAxis == AxisY

\* mesh.rotation.x = Math.PI / 2 applied to a direction
RotateX90(v) == <<v[1], -v[3], v[2]>>

\* the mesh named name: an open-ended cylinder of colour hue, rotated,
\* visible as a new mesh is
Shell(name, part, hue) ==
    [name |-> name, radius |-> part.outer_radius, length |-> part.length,
     color |-> hue, axis |-> RotateX90(CylinderAxis), visible |-> TRUE]

\* the meshes of a list, as the scene holds them: by identity
MeshNames(meshes) == BagOf([k \in DOMAIN meshes |-> meshes[k].name])

\* createDetectorGeometry(): the shells held are removed from the scene and
\* dropped, three are built and added
createDetectorGeometry(sc) ==
    LET geometry == IF sc.detectorConfig # NullConfig
                    THEN GeometryOf(sc.detectorConfig)
                    ELSE DefaultGeometry
        built == <<Shell("tracker", geometry.tracker, 4491519),
                   Shell("ecal", geometry.ecal, 4521864),
                   Shell("hcal", geometry.hcal, 16746564)>>
    IN  [sc EXCEPT !.shells = (@ (-) MeshNames(sc.detectorMeshes))
                                  (+) MeshNames(built),
                   !.detectorMeshes = built]

\* mutant of renderEvent: the primitives held are not removed
renderEventNoClear(sc) ==
    IF sc.event.isNull \/ ~sc.event.hasParticles THEN sc
    ELSE LET drawn == Primitives(sc.event.particles)
         IN  [sc EXCEPT !.objects = @ (+) BagOf(drawn),
                        !.particleMeshes = @ \o drawn]

\* renderEvent(): the primitives held are removed from the scene, then the
\* primitives of the event, if it has particles, are added
renderEvent(sc) ==
    LET cleared == [sc EXCEPT !.objects = @ (-) BagOf(sc.particleMeshes),
                              !.particleMeshes = <<>>]
    IN  IF sc.event.isNull \/ ~sc.event.hasParticles THEN cleared
        ELSE LET drawn == Primitives(sc.event.particles)
             IN  [cleared EXCEPT !.objects = @ (+) BagOf(drawn),
                                 !.particleMeshes = drawn]

\* mutant of renderEventOutcome: without the check of line 218,
\* particles.px is read from an event that is null or has no particles
renderEventOutcomeUnguarded(sc) ==
    IF sc.event.isNull \/ ~sc.event.hasParticles
    THEN [scene |-> [sc EXCEPT !.objects = @ (-) BagOf(sc.particleMeshes),
                               !.particleMeshes = <<>>],
          threw |-> TRUE]
    ELSE [scene |-> renderEvent(sc), threw |-> FALSE]

\* renderEvent() as a call: the scene after it, and whether it threw.  The
\* loop is reached with a particles object only, whose arrays are indexed
\* below px.length; reading past the end of an array does not throw
renderEventOutcome(sc) == [scene |-> renderEvent(sc), threw |-> FALSE]

\* mutant of toggleDetector: the shells are built anew, then flipped
toggleDetectorRebuild(sc) ==
    LET rebuilt == createDetectorGeometry(sc)
    IN  [rebuilt EXCEPT !.showDetector = ~@,
                        !.detectorMeshes =
                            [k \in DOMAIN @ |->
                                [@[k] EXCEPT !.visible = ~sc.showDetector]]]

\* mutant of toggleDetector: the shells are hidden whatever the flag says
toggleDetectorHide(sc) ==
    [sc EXCEPT !.showDetector = ~@,
               !.detectorMeshes =
                    [k \in DOMAIN @ |-> [@[k] EXCEPT !.visible = FALSE]]]

\* toggleDetector()
toggleDetector(sc) ==
    [sc EXCEPT !.showDetector = ~@,
               !.detectorMeshes =
                    [k \in DOMAIN @ |->
                        [@[k] EXCEPT !.visible = ~sc.showDetector]]]

MountedScenes == {i \in 1..Len(scenes) : scenes[i].mounted}

\* n callbacks of instance i in the browser's animation frame queue
Callbacks(i, n) == IF n = 0 THEN EmptyBag ELSE [x \in {i} |-> n]

\* mutant of animate: the next frame is requested only while the store is
\* not loading
animateGated(sc) ==
    [sc EXCEPT !.frames = @ + 1,
               !.requested = IF state.loading THEN 0 ELSE 1]

\* animate() of scene sc: one requestAnimationFrame(this.animate), then the
\* frame is drawn; the frames drawn so far count up to MaxFrames
animate(sc) == [sc EXCEPT !.frames = @ + 1, !.requested = 1]

\* mounted() in a container of size sz with the props e and c:
\* initThreeJS(), createDetectorGeometry(), renderEvent() if there is an
\* event, then the first animate()
NewScene(sz, e, c) ==
    LET made == [mounted |-> TRUE, disposed |-> FALSE, aspect |-> Aspect(sz),
                 size |-> sz, frames |-> 0, requested |-> 0, event |-> e,
                 detectorConfig |-> c,
                 showDetector |-> TRUE, detectorMeshes |-> <<>>,
                 shells |-> EmptyBag,
                 particleMeshes |-> <<>>, objects |-> EmptyBag]
        built == createDetectorGeometry(made)
    IN  animate(IF e.isNull THEN built ELSE renderEvent(built))

\* mutant of onWindowResize: the size is set, the aspect is left
onWindowResizeNoAspect(sc, sz) ==
    IF ~sc.mounted THEN [scene |-> sc, threw |-> FALSE]
    ELSE [scene |-> [sc EXCEPT !.size = sz], threw |-> FALSE]

\* onWindowResize() of scene sc when the container has size sz
onWindowResize(sc, sz) ==
    IF ~sc.mounted THEN [scene |-> sc, threw |-> FALSE]
    ELSE [scene |-> [sc EXCEPT !.aspect = Aspect(sz), !.size = sz],
          threw |-> FALSE]

NoSceneRun == [op |-> "none", inst |-> 0, removed |-> 0]

SceneRun(op, i, n) == [op |-> op, inst |-> i, removed |-> n]

\* an instance is mounted with the props e and c: initThreeJS() registers
\* the resize listener, animate() requests the next frame
SceneMountWith(e, c) ==
    /\ Idle
    /\ MountedScenes = {}
    /\ Len(scenes) < MaxMounts
    /\ scenes' = Append(scenes, NewScene(container, e, c))
    /\ resizeListeners' = Append(resizeListeners, Len(scenes) + 1)
    /\ rafQueue' = rafQueue (+)
            Callbacks(Len(scenes) + 1, NewScene(container, e, c).requested)
    /\ sceneLast' = SceneRun("mounted", Len(scenes) + 1, 0)
    /\ UNCHANGED <<container, loopVars, storeVars, dashVars>>

\* the first visit of the route: the store holds no event and no config
SceneMount == SceneMountWith(NoEvent, NullConfig)

\* a later visit of the route, when the store holds an event already
SceneMountEvent == \E e \in EventProps : SceneMountWith(e, NullConfig)

\* a later visit of the route, when the store holds a configuration already
SceneMountConfig == \E c \in ConfigProps : SceneMountWith(NoEvent, c)

\* a later visit of the route, when the store holds both
SceneMountProps ==
    \E e \in EventProps, c \in ConfigProps : SceneMountWith(e, c)

\* beforeUnmount(): renderer.dispose(), controls.dispose(); then the
\* template refs are cleared
SceneUnmount ==
    \E i \in MountedScenes :
        /\ Idle
        /\ scenes' = [scenes EXCEPT ![i].disposed = TRUE, ![i].mounted = FALSE]
        /\ sceneLast' = SceneRun("beforeUnmount", i, 0)
        /\ UNCHANGED <<resizeListeners, rafQueue, container, loopVars,
                       storeVars, dashVars>>

\* the display's next frame: every pending callback runs animate(), which
\* requests the frame after it
Frame ==
    \E i \in BagToSet(rafQueue) :
        /\ Idle
        /\ scenes[i].frames < MaxFrames
        /\ scenes' = [scenes EXCEPT ![i] = animate(scenes[i])]
        /\ rafQueue' = (rafQueue (-) Callbacks(i, 1))
                            (+) Callbacks(i, animate(scenes[i]).requested)
        /\ sceneLast' = SceneRun("animate", i, 0)
        /\ UNCHANGED <<resizeListeners, container, loopVars, storeVars,
                       dashVars>>

\* the window is resized: the container takes size sz and every registered
\* listener runs
WindowResize ==
    \E sz \in Sizes :
        /\ Idle
        /\ sz # container
        /\ container' = sz
        /\ LET ran == [i \in 1..Len(scenes) |->
                        IF \E k \in 1..Len(resizeListeners) :
                              resizeListeners[k] = i
                        THEN onWindowResize(scenes[i], sz)
                        ELSE [scene |-> scenes[i], threw |-> FALSE]]
           IN  /\ scenes' = [i \in 1..Len(scenes) |-> ran[i].scene]
               /\ unhandled' =
                    (unhandled \/ \E i \in 1..Len(scenes) : ran[i].threw)
        /\ sceneLast' = SceneRun("onWindowResize", 0, 0)
        /\ UNCHANGED <<resizeListeners, rafQueue, httpCount, microtasks,
                       storeVars, dashVars>>

\* the parent passes a new event: the watcher of the event prop runs
\* renderEvent()
WatchEvent ==
    \E i \in MountedScenes, e \in EventProps :
        /\ Idle
        /\ LET ran == renderEventOutcome([scenes[i] EXCEPT !.event = e])
           IN  /\ scenes' = [scenes EXCEPT ![i] = ran.scene]
               /\ unhandled' = (unhandled \/ ran.threw)
        /\ sceneLast' = SceneRun("watch.event", i, Len(scenes[i].particleMeshes))
        /\ UNCHANGED <<resizeListeners, rafQueue, container, httpCount,
                       microtasks, storeVars, dashVars>>

\* the parent passes the detectorConfig the store has committed: the prop
\* has no watcher
DetectorConfigChange ==
    \E i \in MountedScenes, c \in ConfigProps :
        /\ Idle
        /\ c # scenes[i].detectorConfig
        /\ scenes' = [scenes EXCEPT ![i].detectorConfig = c]
        /\ sceneLast' = SceneRun("detectorConfig", i, 0)
        /\ UNCHANGED <<resizeListeners, rafQueue, container, loopVars,
                       storeVars, dashVars>>

\* the "Hide Detector" / "Show Detector" button
ToggleDetector ==
    \E i \in MountedScenes :
        /\ Idle
        /\ scenes' = [scenes EXCEPT ![i] = toggleDetector(scenes[i])]
        /\ sceneLast' = SceneRun("toggleDetector", i, 0)
        /\ UNCHANGED <<resizeListeners, rafQueue, container, loopVars,
                       storeVars, dashVars>>

----------------------------------------------------------------------------
(* services/api.service.js: the Data Client on its own *)

\* event ids, and the names of the collision generators
EventIds == {"e1", "e2"}

EventTypes == {"random", "higgs"}

\* the request each method passes to apiClient; argc is the number of
\* arguments the caller gave, a parameter beyond it takes its default
getEvent(eventId) ==
    [method |-> "GET", url |-> <<"/events/", eventId>>, payload |-> <<>>]

getEvents(argc, params) ==
    [method |-> "GET", url |-> <<"/events">>,
     payload |-> IF argc >= 1 THEN params ELSE <<>>]

generateEvents(argc, eventType, numEvents) ==
    [method |-> "POST", url |-> <<"/collisions/generate">>,
     payload |-> <<IF argc >= 1 THEN eventType ELSE "random",
                   IF argc >= 2 THEN numEvents ELSE 10>>]

getHistogram(argc, variable, bins) ==
    [method |-> "POST", url |-> <<"/analysis/histogram">>,
     payload |-> <<variable, IF argc >= 2 THEN bins ELSE 50, Null, Null>>]

getStatistics ==
    [method |-> "GET", url |-> <<"/statistics/summary">>, payload |-> <<>>]

getDetectorConfigs ==
    [method |-> "GET", url |-> <<"/config/detector">>, payload |-> <<>>]

\* invocations of the Data Client: the method and its arguments
ApiCalls ==
    {[op |-> "getEvent", argc |-> 1, args |-> <<id>>] : id \in EventIds}
        \cup {[op |-> "getEvents", argc |-> 0, args |-> <<>>],
              [op |-> "getEvents", argc |-> 1, args |-> <<1, 10>>]}
        \cup {[op |-> "generateEvents", argc |-> 0, args |-> <<>>]}
        \cup {[op |-> "generateEvents", argc |-> 2, args |-> <<t, 5>>] :
                t \in EventTypes}
        \cup {[op |-> "getHistogram", argc |-> 2, args |-> <<v, 50>>] :
                v \in HistVariables}
        \cup {[op |-> "getStatistics", argc |-> 0, args |-> <<>>],
              [op |-> "getDetectorConfigs", argc |-> 0, args |-> <<>>]}

\* the requests a method issues when it is invoked: each method calls
\* apiClient.get or apiClient.post once
RequestsOf(call) ==
    CASE call.op = "getEvent" -> <<getEvent(call.args[1])>>
      [] call.op = "getEvents" -> <<getEvents(call.argc, call.args)>>
      [] call.op = "generateEvents" ->
            <<IF call.argc = 0 THEN generateEvents(0, "random", 10)
              ELSE generateEvents(call.argc, call.args[1], call.args[2])>>
      [] call.op = "getHistogram" ->
            <<getHistogram(call.argc, call.args[1], call.args[2])>>
      [] call.op = "getStatistics" -> <<getStatistics>>
      [] call.op = "getDetectorConfigs" -> <<getDetectorConfigs>>

\* what apiClient settles a request with: a response with its status and
\* parsed data, or no response at all
HttpOutcomes ==
    {[status |-> 200, data |-> "bodyA"], [status |-> 200, data |-> "bodyB"],
     [status |-> 500, data |-> "Internal Server Error"],
     [status |-> 0, data |-> Null]}

\* axios resolves a 2xx response and rejects everything else
Resolves(o) == o.status >= 200 /\ o.status < 300

ErrorMessage(o) ==
    IF o.status = 0 THEN "Network Error"
    ELSE "Request failed with status code 500"

\* mutant of ApiSettled: a failed request is issued once more
ApiSettledRetry(call, o) ==
    IF Resolves(o)
    THEN [outcome |-> "fulfilled", value |-> o.data, reissued |-> <<>>]
    ELSE [outcome |-> "rejected", value |-> ErrorMessage(o),
          reissued |-> RequestsOf(call)]

\* a method after its await: return response.data, or the rejection of the
\* await leaves the async function; reissued are the requests it sends then
ApiSettled(call, o) ==
    IF Resolves(o)
    THEN [outcome |-> "fulfilled", value |-> o.data, reissued |-> <<>>]
    ELSE [outcome |-> "rejected", value |-> ErrorMessage(o),
          reissued |-> <<>>]

\* a method is invoked; last records the invocation, its promise pending
ApiInvoke ==
    \E call \in ApiCalls :
        /\ Idle
        /\ Len(pending) + Len(RequestsOf(call)) <= MaxInFlight
        /\ httpCount + Len(RequestsOf(call)) <= MaxRequests
        /\ pending' = pending \o
              [k \in 1..Len(RequestsOf(call)) |->
                  [call |-> call, request |-> RequestsOf(call)[k]]]
        /\ httpCount' = httpCount + Len(RequestsOf(call))
        /\ last' = [call |-> call, outcome |-> "pending", value |-> Null,
                    response |-> [status |-> 0, data |-> Null]]
        /\ UNCHANGED <<state, microtasks, unhandled, dashVars, sceneVars>>

\* request i settles and the method that awaits it runs to its end
ApiSettle(i) ==
    /\ Idle
    /\ i \in 1..Len(pending)
    /\ \E o \in HttpOutcomes :
          LET done == ApiSettled(pending[i].call, o)
              rest == [k \in 1..(Len(pending) - 1) |->
                          IF k < i THEN pending[k] ELSE pending[k + 1]]
          IN  /\ pending' = rest \o
                    [k \in 1..Len(done.reissued) |->
                        [call |-> pending[i].call,
                         request |-> done.reissued[k]]]
              /\ httpCount' = httpCount + Len(done.reissued)
              /\ last' = [call |-> pending[i].call, outcome |-> done.outcome,
                          value |-> done.value, response |-> o]
    /\ UNCHANGED <<state, microtasks, unhandled, dashVars, sceneVars>>

----------------------------------------------------------------------------
(* Specifications *)

Init ==
    /\ state = InitialState
    /\ pending = <<>>
    /\ httpCount = 0
    /\ last = NoDelivery
    /\ microtasks = <<>>
    /\ unhandled = FALSE
    /\ dash = <<>>
    /\ timers = {}
    /\ histPending = <<>>
    /\ histCount = 0
    /\ histLast = NoHistDelivery
    /\ charts = <<>>
    /\ scenes = <<>>
    /\ resizeListeners = <<>>
    /\ rafQueue = EmptyBag
    /\ container = <<800, 600>>
    /\ sceneLast = NoSceneRun

\* the store and the EventDisplay view
Next ==
    \/ FetchEvent
    \/ FetchEvents
    \/ FetchStatistics
    \/ FetchDetectorConfigs
    \/ EventDisplayMounted
    \/ ClickLoadLatestEvent
    \/ \E k \in 1..MaxEvents : ClickEventCard(k)
    \/ \E i \in 1..MaxInFlight : Deliver(i)
    \/ LoadLatestEventResume

Spec == Init /\ [][Next]_vars

\* the AnalysisDashboard view.  The response to the fetchStatistics of
\* mounted() is delivered in Spec: it changes the store only, which no
\* handler of the dashboard reads.
NextDash ==
    \/ DashMount
    \/ DashUnmount
    \/ ClickGenerate
    \/ TimerFires
    \/ \E j \in 1..MaxInFlight : DeliverHistogram(j)
    \/ DashFlush

SpecDash == Init /\ [][NextDash]_vars

\* the EventDisplay3D component
NextScene ==
    \/ SceneMount
    \/ SceneUnmount
    \/ Frame
    \/ WindowResize

SpecScene == Init /\ [][NextScene]_vars

\* one mounted EventDisplay3D and the events its parent passes
NextDraw ==
    \/ SceneMountEvent
    \/ WatchEvent

SpecDraw == Init /\ [][NextDraw]_vars

\* one mounted EventDisplay3D and its detector: the configuration its parent
\* passes, the buttons of its overlay, resizes of the window
NextShells ==
    \/ SceneMountConfig
    \/ DetectorConfigChange
    \/ ToggleDetector
    \/ WindowResize

SpecShells == Init /\ [][NextShells]_vars

\* the sources of these events never stop for good
FairShells == SpecShells /\ WF_vars(NextShells)

\* fetches that target the same field, in flight together.  A session stays
\* on one route: fetchEvent and fetchEvents of the store under EventDisplay,
\* or generateHistogram under AnalysisDashboard, whose button is disabled
\* while loading, so that the second call is the timeout of mounted()
NextFetch ==
    \/ (dash = <<>> /\ FetchEvent)
    \/ (dash = <<>> /\ FetchEvents)
    \/ \E i \in 1..MaxInFlight : Deliver(i)
    \/ (httpCount = 0 /\ DashMount)
    \/ ClickGenerate
    \/ TimerFires
    \/ \E j \in 1..MaxInFlight : DeliverHistogram(j)
    \/ DashFlush

SpecFetch == Init /\ [][NextFetch]_vars

\* teardown of the two views with responses and resize events still to come
NextTeardown ==
    \/ DashMount
    \/ DashUnmount
    \/ TimerFires
    \/ \E j \in 1..MaxInFlight : DeliverHistogram(j)
    \/ DashFlush
    \/ SceneMount
    \/ SceneUnmount
    \/ WindowResize

SpecTeardown == Init /\ [][NextTeardown]_vars

\* the panels side by side.  The store outlives the views, so a session is
\* either the store's fetches with a fetchStatistics that a dashboard left
\* in flight when the route changed, or a dashboard with the fetchStatistics
\* of its mounted() and its histograms
NextPanels ==
    \/ (dash = <<>> /\ FetchEvent)
    \/ (dash = <<>> /\ FetchEvents)
    \/ (dash = <<>> /\ FetchStatistics)
    \/ \E i \in 1..MaxInFlight : Deliver(i)
    \/ (httpCount = 0 /\ DashMount)
    \/ ClickGenerate
    \/ TimerFires
    \/ \E j \in 1..MaxInFlight : DeliverHistogram(j)
    \/ DashFlush

SpecPanels == Init /\ [][NextPanels]_vars

\* the render loop of EventDisplay3D next to fetches of the store: one
\* that sets loading, one that does not
NextLoop ==
    \/ SceneMount
    \/ SceneUnmount
    \/ Frame
    \/ FetchEvent
    \/ FetchStatistics
    \/ \E i \in 1..MaxInFlight : Deliver(i)

SpecLoop == Init /\ [][NextLoop]_vars

\* one mounted EventDisplay3D with an event drawn, the configuration its
\* parent passes and the detector button
NextToggle ==
    \/ SceneMountProps
    \/ DetectorConfigChange
    \/ ToggleDetector

SpecToggle == Init /\ [][NextToggle]_vars

\* one AnalysisDashboard whose variable select is used between the
\* histogram requests and their responses
NextSelect ==
    \/ DashMount
    \/ ClickGenerate
    \/ TimerFires
    \/ SelectVariable
    \/ \E j \in 1..MaxInFlight : DeliverHistogram(j)
    \/ DashFlush

SpecSelect == Init /\ [][NextSelect]_vars

\* the Data Client under any caller
NextApi ==
    \/ ApiInvoke
    \/ \E i \in 1..MaxInFlight : ApiSettle(i)

SpecApi == Init /\ [][NextApi]_vars

----------------------------------------------------------------------------
(* Steps of the store, recognised from the requests in flight *)

\* the positions in pending' of the requests this step issued
IssuedNow == (Len(pending) + 1)..Len(pending')

\* this step delivered the response recorded in last'
DeliveredNow == Len(pending') < Len(pending)

LoadingOps == {"getEvent", "getEvents"}

\* this step delivered the histogram response recorded in histLast'
HistDeliveredNow == Len(histPending') < Len(histPending)

----------------------------------------------------------------------------
(* Claims *)

\* C1: when getDetectorConfigs settles with a list, detectorConfig becomes
\* the first entry in list order whose is_active is true; if the list is not
\* empty and no entry is active, the first entry; if the list is empty (or
\* the body is null), detectorConfig is left as it was, so unset stays unset.
C1_PublishesOneConfig ==
    [][(DeliveredNow /\ last'.op = "getDetectorConfigs" /\ last'.ok) =>
          LET configs == last'.body.items
              active == {k \in 1..Len(configs) : configs[k].is_active}
          IN  /\ (active # {}) =>
                    \E k \in active :
                        /\ \A j \in active : k <= j
                        /\ state'.detectorConfig = configs[k]
              /\ (active = {} /\ Len(configs) > 0) =>
                    state'.detectorConfig = configs[1]
              /\ (Len(configs) = 0) =>
                    state'.detectorConfig = state.detectorConfig]_vars

\* C1 witness: a list whose first entry is inactive and whose second entry is
\* active was delivered, and the second entry is published
C1_Witness ==
    /\ last.op = "getDetectorConfigs"
    /\ last.ok
    /\ Len(last.body.items) = 2
    /\ ~last.body.items[1].is_active
    /\ last.body.items[2].is_active
    /\ state.detectorConfig = last.body.items[2]

\* C2 as stated: every store action sets loading to true when it is
\* dispatched and to false when its Data Client call has settled.
C2_Original ==
    [][/\ (IssuedNow # {}) => state'.loading
       /\ DeliveredNow => ~state'.loading]_vars

\* C2 amended: fetchEvent and fetchEvents set loading to true when they are
\* dispatched and, when the call settles, commit the result or the error and
\* set loading to false; fetchStatistics and fetchDetectorConfigs commit the
\* result or the error and leave loading as it is.
C2_LoadingSequence ==
    [][/\ (\E k \in IssuedNow : pending'[k].op \in LoadingOps) => state'.loading
       /\ (DeliveredNow /\ last'.op \in LoadingOps) =>
            /\ ~state'.loading
            /\ last'.ok =>
                 IF last'.op = "getEvent"
                 THEN state'.currentEvent = last'.body
                 ELSE state'.events = last'.body
            /\ ~last'.ok => state'.error = last'.message
       /\ (IssuedNow # {} /\ \A k \in IssuedNow : pending'[k].op \notin LoadingOps)
            => state'.loading = state.loading
       /\ (DeliveredNow /\ last'.op \notin LoadingOps) =>
            /\ state'.loading = state.loading
            /\ ~last'.ok => state'.error = last'.message
            /\ (last'.ok /\ last'.op = "getStatistics") =>
                 state'.statistics = last'.body]_vars

\* C2 witness: a fetchEvents call has failed, with another request still in
\* flight: loading is false and error holds the message
C2_Witness ==
    /\ last.op = "getEvents"
    /\ ~last.ok
    /\ ~state.loading
    /\ state.error = last.message
    /\ pending # <<>>

\* C3: when the Data Client call of a store action fails, error becomes the
\* failure's message, no result field changes, and the action's promise is
\* fulfilled: an awaiting caller resumes normally and nothing is unhandled.
C3_FailureCaught ==
    [][/\ (DeliveredNow /\ ~last'.ok) =>
            /\ state'.error = last'.message
            /\ state'.currentEvent = state.currentEvent
            /\ state'.events = state.events
            /\ state'.statistics = state.statistics
            /\ state'.detectorConfig = state.detectorConfig
            /\ microtasks' =
                 IF last'.caller = "none" THEN <<>>
                 ELSE <<Microtask(last'.caller, "fulfilled", 0)>>
       /\ ~unhandled']_vars

\* C3 witness: the fetchEvents call awaited by loadLatestEvent has failed and
\* loadLatestEvent is about to resume
C3_Witness ==
    /\ last.op = "getEvents"
    /\ ~last.ok
    /\ state.error = last.message
    /\ microtasks = <<Microtask("loadLatestEvent", "fulfilled", 0)>>

\* C4: last write wins.  Every successful response is committed when it
\* arrives, whether or not a request issued after it has been answered
\* already: a getEvent response becomes currentEvent, a getEvents response
\* becomes events, a histogram response becomes the histogramData of the
\* instance that asked.  The field therefore ends as the response that
\* resolved last, and no response is dropped for its request's identity.
C4_LastWriteWins ==
    [][/\ (DeliveredNow /\ last'.ok /\ last'.op = "getEvent") =>
            state'.currentEvent = last'.body
       /\ (DeliveredNow /\ last'.ok /\ last'.op = "getEvents") =>
            state'.events = last'.body
       /\ (HistDeliveredNow /\ histLast'.ok) =>
            dash'[histLast'.inst].histogramData = histLast'.body]_vars

\* C4 witness: of two generateHistogram calls in flight together the one
\* issued first resolved last, and histogramData is its body
C4_Witness ==
    /\ histLast.ok
    /\ histLast.overtaken
    /\ histPending = <<>>
    /\ histCount = 2
    /\ dash[histLast.inst].histogramData = histLast.body

\* C5: loadLatestEvent issues one request, the getEvents call; when it resumes
\* after that call returned an empty list it commits nothing (currentEvent is
\* left as it was) and issues no request.
C5_EmptyListNoSelect ==
    [][/\ Cardinality({k \in IssuedNow :
                          pending'[k].caller = "loadLatestEvent"}) <= 1
       /\ \A k \in IssuedNow :
            pending'[k].caller = "loadLatestEvent" => pending'[k].op = "getEvents"
       /\ (/\ microtasks # <<>>
           /\ Head(microtasks).task = "loadLatestEvent"
           /\ last.op = "getEvents"
           /\ last.ok
           /\ last.body = <<>>) =>
            /\ state' = state
            /\ httpCount' = httpCount
            /\ pending' = pending]_vars

\* C5 witness: loadLatestEvent has run to its end on an empty list: one
\* request was issued and currentEvent is unset
C5_Witness ==
    /\ microtasks = <<>>
    /\ last.op = "getEvents"
    /\ last.caller = "loadLatestEvent"
    /\ last.ok
    /\ last.body = <<>>
    /\ state.currentEvent = Null
    /\ httpCount = 1
    /\ pending = <<>>

\* C6: the render loop is cancelled on teardown.  Once beforeUnmount of an
\* EventDisplay3D instance has run, no animation frame of that instance is
\* requested and none is drawn.
C6_RenderLoopCancelled ==
    [][\A i \in 1..Len(scenes) :
          scenes[i].disposed =>
              /\ ~BagIn(i, rafQueue')
              /\ scenes'[i].frames = scenes[i].frames]_vars

\* C7: the resize listener is released on teardown.  Every registered
\* listener belongs to an instance that is mounted, so that the listeners
\* never outnumber the one instance the route shows.
C7_ListenersReleased ==
    /\ \A k \in 1..Len(resizeListeners) : scenes[resizeListeners[k]].mounted
    /\ Len(resizeListeners) <= 1

\* C8: what arrives after teardown is ignored without failure.  A histogram
\* response delivered to an unmounted AnalysisDashboard constructs no chart,
\* leaves no chart live and raises nothing: error stays null when the
\* response is a success, and nothing is thrown out of the handler.  A resize
\* event leaves the camera and the draw surface of every unmounted
\* EventDisplay3D as they were, and throws nothing.
C8_LateArrivalIgnored ==
    [][/\ (HistDeliveredNow /\ histLast'.late) =>
            /\ Len(charts') = Len(charts)
            /\ \A k \in 1..Len(charts') : ~charts'[k].live
            /\ histLast'.ok => dash'[histLast'.inst].error = Null
            /\ unhandled' = unhandled
       /\ (container' # container) =>
            /\ \A i \in 1..Len(scenes) :
                  ~scenes[i].mounted => scenes'[i] = scenes[i]
            /\ unhandled' = unhandled]_vars

\* C8 witness: a successful histogram response has been delivered to an
\* unmounted dashboard, and the window has been resized after a scene was
\* unmounted: the scene keeps the size it had
C8_Witness ==
    /\ histLast.late
    /\ histLast.ok
    /\ dash[histLast.inst].histogramData = histLast.body
    /\ dash[histLast.inst].error = Null
    /\ charts = <<>>
    /\ ~unhandled
    /\ \E i \in 1..Len(scenes) :
          /\ scenes[i].disposed
          /\ scenes[i].size # container

\* C9: at most one chart is live at any time, and a live chart is the one
\* held by a mounted instance: renderHistogram has destroyed the chart held
\* before it constructs the next, and beforeUnmount has destroyed the chart
\* held at unmount.
C9_OneLiveChart ==
    /\ Cardinality({k \in 1..Len(charts) : charts[k].live}) <= 1
    /\ \A k \in 1..Len(charts) :
          charts[k].live =>
              /\ dash[charts[k].owner].mounted
              /\ dash[charts[k].owner].chart = k

\* C9 witness: an instance has constructed a second chart, the first one is
\* destroyed and the second one is live
C9_Witness ==
    /\ Len(charts) = 2
    /\ charts[1].owner = charts[2].owner
    /\ ~charts[1].live
    /\ charts[2].live

\* C10: once a successful generateHistogram of a mounted AnalysisDashboard
\* has run to its end and the DOM is patched, the instance shows a chart
\* whose bars are the response's values and whose title holds the response's
\* num_events followed by " events".
C10_ChartShowsResponse ==
    (/\ histLast.inst # 0
     /\ histLast.ok
     /\ ~histLast.late
     /\ dash[histLast.inst].mounted
     /\ microtasks = <<>>
     /\ \A j \in 1..Len(histPending) : histPending[j].inst # histLast.inst)
    => \E k \in 1..Len(charts) :
          /\ charts[k].live
          /\ charts[k].owner = histLast.inst
          /\ charts[k].data = histLast.body.values
          /\ charts[k].title[3] = histLast.body.num_events
          /\ charts[k].title[4] = " events)"

\* C20: loading and error are not exclusive.  When fetchStatistics or
\* fetchDetectorConfigs fails while a fetchEvent or fetchEvents call is in
\* flight, error becomes the message and loading stays as it is, so that a
\* state with loading = true and an error message is reached.
C20_FailureKeepsLoading ==
    [][(/\ DeliveredNow
        /\ ~last'.ok
        /\ last'.op \notin LoadingOps
        /\ \E k \in 1..Len(pending') : pending'[k].op \in LoadingOps)
       => /\ state'.error = last'.message
          /\ state'.loading = state.loading]_vars

\* C20 witness: fetchDetectorConfigs has failed while the fetchEvents of
\* loadLatestEvent is in flight: loading is true and error is the message
C20_Witness ==
    /\ state.loading
    /\ state.error # Null
    /\ last.op = "getDetectorConfigs"
    /\ ~last.ok
    /\ state.error = last.message
    /\ \E k \in 1..Len(pending) :
          /\ pending[k].op = "getEvents"
          /\ pending[k].caller = "loadLatestEvent"

----------------------------------------------------------------------------
(* The scene of a mounted EventDisplay3D *)

\* the shells of scene i have the outer_radius and length of geometry g
ShellsBuiltFrom(i, g) ==
    /\ Len(scenes[i].detectorMeshes) = 3
    /\ scenes[i].detectorMeshes[1].radius = g.tracker.outer_radius
    /\ scenes[i].detectorMeshes[1].length = g.tracker.length
    /\ scenes[i].detectorMeshes[2].radius = g.ecal.outer_radius
    /\ scenes[i].detectorMeshes[2].length = g.ecal.length
    /\ scenes[i].detectorMeshes[3].radius = g.hcal.outer_radius
    /\ scenes[i].detectorMeshes[3].length = g.hcal.length

\* instance i is mounted and has been passed a DetectorConfig
HoldsConfig(i) ==
    /\ i \in MountedScenes
    /\ scenes[i].detectorConfig # NullConfig

\* C11: once a mounted EventDisplay3D has been passed the DetectorConfig the
\* store committed, its three shells are eventually those of that config's
\* tracker, ecal and hcal outer_radius and length.
C11_ShellsFollowConfig ==
    \A i \in 1..MaxMounts :
        HoldsConfig(i) ~>
            (HoldsConfig(i) /\ ShellsBuiltFrom(i, GeometryOf(scenes[i].detectorConfig)))

\* the display axis on which a track's longitudinal coordinate is plotted:
\* the axis along which a particle of momentum (0, 0, 1) moves
BeamAxis ==
    CHOOSE a \in {AxisX, AxisY, AxisZ} :
        \E n \in 1..1000 :
            TrackPoint(0, 0, 1, 0, numPoints) = <<n * a[1], n * a[2], n * a[3]>>

\* C12: every detector shell extends, after its rotation, along the display
\* axis on which the longitudinal coordinate of a track is plotted, in one
\* direction or the other.
C12_ShellAxisIsBeamAxis ==
    \A i \in 1..Len(scenes) :
        \A k \in 1..Len(scenes[i].detectorMeshes) :
            \/ scenes[i].detectorMeshes[k].axis = BeamAxis
            \/ scenes[i].detectorMeshes[k].axis =
                  <<-BeamAxis[1], -BeamAxis[2], -BeamAxis[3]>>

\* the particles of the event that scene i has been passed
ParticleCount(i) ==
    IF scenes[i].event.isNull \/ ~scenes[i].event.hasParticles THEN 0
    ELSE Len(scenes[i].event.particles.px)

OfKind(i, kind) ==
    {k \in 1..Len(scenes[i].particleMeshes) :
        scenes[i].particleMeshes[k].kind = kind}

\* C13: for an event of M particles the scene's list of per-event primitives
\* holds 2M entries: M polylines of 51 points each and M origin markers, and
\* the scene holds as many.
C13_PrimitiveCounts ==
    \A i \in MountedScenes :
        /\ Len(scenes[i].particleMeshes) = 2 * ParticleCount(i)
        /\ Cardinality(OfKind(i, "line")) = ParticleCount(i)
        /\ Cardinality(OfKind(i, "marker")) = ParticleCount(i)
        /\ \A k \in OfKind(i, "line") :
              Len(scenes[i].particleMeshes[k].points) = 51
        /\ BagCardinality(scenes[i].objects) = 2 * ParticleCount(i)

\* C13 witness: the watcher has drawn an event of two particles
C13_Witness ==
    /\ sceneLast.op = "watch.event"
    /\ ParticleCount(sceneLast.inst) = 2
    /\ Len(scenes[sceneLast.inst].particleMeshes) = 4
    /\ Len(scenes[sceneLast.inst].particleMeshes[3].points) = 51

\* C14: the per-event primitives in the scene are exactly those built from
\* the event the component holds, none when it holds no event: what an
\* earlier renderEvent drew is gone.
C14_OnlyCurrentEvent ==
    \A i \in MountedScenes :
        /\ scenes[i].objects = BagOf(scenes[i].particleMeshes)
        /\ scenes[i].particleMeshes =
              IF ParticleCount(i) = 0 THEN <<>>
              ELSE Primitives(scenes[i].event.particles)

\* C14 witness: the watcher has removed the four primitives of an event of
\* two particles and drawn the two primitives of an event of one
C14_Witness ==
    /\ sceneLast.op = "watch.event"
    /\ sceneLast.removed = 4
    /\ ParticleCount(sceneLast.inst) = 1
    /\ BagCardinality(scenes[sceneLast.inst].objects) = 2

Red == 16711680
Green == 65280
Yellow == 16776960
Cyan == 65535

\* C15: the track and the marker of a particle have one colour, which is
\* red for |pdg_id| = 11, green for 13, yellow for 22 and cyan otherwise,
\* whatever the particle's place in the event and whatever the others are.
C15_ColorBySpecies ==
    \A i \in MountedScenes :
        \A p \in 1..ParticleCount(i) :
            LET id == scenes[i].event.particles.pdg_id[p]
                species == IF id < 0 THEN -id ELSE id
                expected == CASE species = 11 -> Red
                              [] species = 13 -> Green
                              [] species = 22 -> Yellow
                              [] OTHER -> Cyan
            IN  /\ 2 * p <= Len(scenes[i].particleMeshes)
                /\ scenes[i].particleMeshes[2 * p - 1].color = expected
                /\ scenes[i].particleMeshes[2 * p].color = expected

\* C15 witness: an antimuon followed by a positron is drawn green, then red
C15_Witness ==
    \E i \in MountedScenes :
        /\ ParticleCount(i) = 2
        /\ scenes[i].event.particles.pdg_id = <<-13, -11>>
        /\ scenes[i].particleMeshes[1].color = Green
        /\ scenes[i].particleMeshes[2].color = Green
        /\ scenes[i].particleMeshes[3].color = Red
        /\ scenes[i].particleMeshes[4].color = Red

\* C18: two toggles in a row undo each other.  In every reachable state,
\* toggleDetector applied twice to an instance leaves showDetector and the
\* visible flag of each of its three shells as they are.
C18_ToggleTwiceIsIdentity ==
    \A i \in 1..Len(scenes) :
        LET twice == toggleDetector(toggleDetector(scenes[i]))
        IN  /\ twice.showDetector = scenes[i].showDetector
            /\ Len(twice.detectorMeshes) = 3
            /\ \A k \in 1..3 :
                  twice.detectorMeshes[k].visible
                      = scenes[i].detectorMeshes[k].visible

\* C18 witness: the button has been clicked an even number of times, last
\* just now: the detector is shown again, each shell visible
C18_Witness ==
    /\ sceneLast.op = "toggleDetector"
    /\ scenes[sceneLast.inst].showDetector
    /\ \A k \in 1..3 : scenes[sceneLast.inst].detectorMeshes[k].visible

\* C19: when the window is resized, every mounted EventDisplay3D takes the
\* container's new width over its new height as the camera's aspect ratio,
\* and the new (width, height) as the size of its draw surface.
C19_ResizeFollowsContainer ==
    [][(container' # container) =>
          \A i \in MountedScenes :
              /\ scenes'[i].size = container'
              /\ scenes'[i].aspect[1] * container'[2]
                    = scenes'[i].aspect[2] * container'[1]]_vars

\* C19 witness: a scene mounted at 800 x 600 has followed the resize to
\* 1200 x 600: its aspect is 2
C19_Witness ==
    /\ sceneLast.op = "onWindowResize"
    /\ container = <<1200, 600>>
    /\ \E i \in MountedScenes :
          /\ scenes[i].size = <<1200, 600>>
          /\ scenes[i].aspect = <<2, 1>>

----------------------------------------------------------------------------
(* The chart of the AnalysisDashboard *)

\* C16: a chart drawn from a HistogramResult has len(bins) - 1 bin-center
\* labels, as many as it has values, and label k is (bins[k] + bins[k+1]) / 2
\* written with one decimal.
C16_BinCenterLabels ==
    \A c \in 1..Len(charts) :
        charts[c].live =>
            LET bins == dash[charts[c].owner].histogramData.bins
                centers == charts[c].labels
            IN  /\ Len(centers) = Len(bins) - 1
                /\ Len(centers) = Len(charts[c].data)
                /\ \A k \in 1..Len(centers) :
                      2 * (10 * centers[k][1] + centers[k][2])
                          = 10 * (bins[k] + bins[k + 1])

\* C16 witness: the chart of the bin edges 0, 1, 4 has the labels 0.5 and 2.5
C16_Witness ==
    \E c \in 1..Len(charts) :
        /\ charts[c].live
        /\ dash[charts[c].owner].histogramData.bins = <<0, 1, 4>>
        /\ charts[c].labels = << <<0, 5>>, <<2, 5>> >>
        /\ Len(charts[c].data) = 2

\* keys getVariableLabel may be called with: the options of the select, and
\* strings that are none of them
VariableKeys ==
    {"invariant_mass", "missing_et", "leading_jet_pt", "scalar_ht",
     "jet_eta", "", "Invariant Mass", "constructor", "toString", "__proto__"}

\* the dataset label of the chart instance i builds when its selected
\* variable is key
LabelShown(i, key) ==
    NewChart([dash[i] EXCEPT !.selectedVariable = key], i).label

\* C17: getVariableLabel gives the four known keys their fixed labels and
\* gives every other key back as it is, so that the label a dashboard shows
\* for an unknown key is the key.
C17_LabelOrRawKey ==
    \A i \in 1..Len(dash) :
        /\ LabelShown(i, "invariant_mass") = "Invariant Mass"
        /\ LabelShown(i, "missing_et") = "Missing ET"
        /\ LabelShown(i, "leading_jet_pt") = "Leading Jet pT"
        /\ LabelShown(i, "scalar_ht") = "Scalar HT"
        /\ \A key \in VariableKeys :
              key \notin {"invariant_mass", "missing_et", "leading_jet_pt",
                          "scalar_ht"}
                  => LabelShown(i, key) = key

----------------------------------------------------------------------------
(* The panels side by side *)

\* C21: a failing fetchStatistics does not block the other panels.  The step
\* that delivers the failure changes error and no other field of the state,
\* cancels no request in flight and touches no dashboard; and every
\* successful response of getEvent, getEvents and getHistogram that arrives,
\* before or after it, is committed.
C21_StatisticsFailureIsLocal ==
    [][/\ (DeliveredNow /\ last'.op = "getStatistics" /\ ~last'.ok) =>
            /\ state' = [state EXCEPT !.error = last'.message]
            /\ Len(pending') = Len(pending) - 1
            /\ histPending' = histPending
            /\ dash' = dash
            /\ timers' = timers
            /\ charts' = charts
       /\ (DeliveredNow /\ last'.ok /\ last'.op = "getEvent") =>
            /\ state'.currentEvent = last'.body
            /\ ~state'.loading
       /\ (DeliveredNow /\ last'.ok /\ last'.op = "getEvents") =>
            /\ state'.events = last'.body
            /\ ~state'.loading
       /\ (HistDeliveredNow /\ histLast'.ok) =>
            /\ dash'[histLast'.inst].histogramData = histLast'.body
            /\ ~dash'[histLast'.inst].loading]_vars

\* C21 witness: the fetchStatistics of the dashboard's mounted(), the one
\* request of the store, has failed, and a histogram requested by the same
\* dashboard is committed, the failure's message in error
C21_Witness ==
    /\ httpCount = 1
    /\ pending = <<>>
    /\ last.op = "getStatistics"
    /\ ~last.ok
    /\ state = [InitialState EXCEPT !.error = last.message]
    /\ histLast.inst # 0
    /\ histLast.ok
    /\ dash[histLast.inst].histogramData = histLast.body
    /\ ~dash[histLast.inst].loading

----------------------------------------------------------------------------
(* The Data Client *)

\* C22: every invocation of a Data Client method issues exactly one HTTP
\* request, whatever was invoked or answered before; the invocation whose
\* request gets a 2xx response is fulfilled with the response's data; the
\* invocation whose request fails is rejected, and no request is issued when
\* a request settles.
C22_OneRequestPerCall ==
    [][/\ (last'.outcome = "pending") =>
            /\ Len(pending') = Len(pending) + 1
            /\ httpCount' = httpCount + 1
            /\ pending'[Len(pending')].call = last'.call
            /\ \A k \in 1..Len(pending) : pending'[k] = pending[k]
       /\ (last'.outcome # "pending") =>
            /\ Len(pending') = Len(pending) - 1
            /\ httpCount' = httpCount
            /\ Resolves(last'.response) =>
                  /\ last'.outcome = "fulfilled"
                  /\ last'.value = last'.response.data
            /\ ~Resolves(last'.response) => last'.outcome = "rejected"]_vars

\* C22 witness: getEvent was invoked twice with the same id and two requests
\* were issued; one has just failed on the network and its invocation is
\* rejected, the other is still in flight and no third request was issued
C22_Witness ==
    /\ httpCount = 2
    /\ Len(pending) = 1
    /\ pending[1].call = last.call
    /\ pending[1].call.op = "getEvent"
    /\ pending[1].request = getEvent(last.call.args[1])
    /\ last.outcome = "rejected"
    /\ last.value = "Network Error"

----------------------------------------------------------------------------
(* Nothing to draw *)

\* C23: when renderEvent runs for no event, or for an event without a
\* particles array, every per-event primitive drawn before is removed from
\* the scene, none is added, and no error is raised.
C23_NothingToDraw ==
    [][\A i \in 1..Len(scenes') :
          (/\ sceneLast'.inst = i
           /\ sceneLast'.op \in {"mounted", "watch.event"}
           /\ scenes'[i].event.isNull \/ ~scenes'[i].event.hasParticles)
          => /\ scenes'[i].particleMeshes = <<>>
             /\ scenes'[i].objects = EmptyBag
             /\ unhandled' = unhandled
             /\ ~unhandled']_vars

\* C23 witness: the watcher has run renderEvent for an event without a
\* particles array while the scene held the four primitives of two
\* particles: they are gone and nothing was raised
C23_Witness ==
    /\ sceneLast.op = "watch.event"
    /\ sceneLast.removed = 4
    /\ scenes[sceneLast.inst].event = BareEvent
    /\ scenes[sceneLast.inst].particleMeshes = <<>>
    /\ scenes[sceneLast.inst].objects = EmptyBag
    /\ ~unhandled

----------------------------------------------------------------------------
(* The life of an error message *)

\* C24: error is reset to null only by the start of fetchEvent or
\* fetchEvents.  A step that turns a message into null issues a getEvent or
\* getEvents request; the successful completion of any action leaves error
\* as it is; and neither the start nor the completion of fetchStatistics or
\* fetchDetectorConfigs turns a message into null.
C24_ErrorClearedAtStartOnly ==
    [][/\ (state.error # Null /\ state'.error = Null) =>
            \E k \in IssuedNow : pending'[k].op \in LoadingOps
       /\ (DeliveredNow /\ last'.ok) => state'.error = state.error
       /\ (IssuedNow # {} /\ \A k \in IssuedNow : pending'[k].op \notin LoadingOps)
            => state'.error = state.error
       /\ (DeliveredNow /\ last'.op \notin LoadingOps /\ state.error # Null)
            => state'.error # Null]_vars

\* C24 witness: of two fetchStatistics calls the second failed and the first
\* succeeded after it: statistics is committed and error still holds the
\* message of the failure
C24_Witness ==
    /\ httpCount = 2
    /\ pending = <<>>
    /\ last.op = "getStatistics"
    /\ last.ok
    /\ last.overtaken
    /\ state.statistics = last.body
    /\ state.error \in Messages

----------------------------------------------------------------------------
(* The render loop *)

\* C25: the render loop is not gated by fetching.  Whatever loading, error
\* and the requests in flight are, every run of animate draws one frame and
\* requests one, so that every instance created has exactly one frame
\* callback pending in every state from its mount onward.
C25_LoopNotGated ==
    [][/\ \A i \in 1..Len(scenes') : CopiesIn(i, rafQueue') = 1
       /\ (sceneLast'.op = "animate" /\ scenes' # scenes) =>
            LET i == sceneLast'.inst
            IN  /\ scenes'[i].frames = scenes[i].frames + 1
                /\ scenes'[i].requested = 1
                /\ state' = state
                /\ pending' = pending]_vars

\* C25 witness: a frame has just been drawn, the third of its instance,
\* while loading is true, error holds a message and a request is in flight;
\* the next frame is requested
C25_Witness ==
    /\ sceneLast.op = "animate"
    /\ scenes[sceneLast.inst].frames = 3
    /\ CopiesIn(sceneLast.inst, rafQueue) = 1
    /\ state.loading
    /\ state.error \in Messages
    /\ pending # <<>>

----------------------------------------------------------------------------
(* The detector button *)

\* C26: in every state after mount the scene holds exactly three detector
\* shells, each with visible equal to showDetector; toggleDetector negates
\* showDetector and the visible flag of the three in one step, and leaves
\* the shells otherwise, the scene and the per-event primitives as they are.
C26_ThreeShellsOneFlag ==
    [][/\ \A i \in 1..Len(scenes') :
            /\ Len(scenes'[i].detectorMeshes) = 3
            /\ scenes'[i].shells = MeshNames(scenes'[i].detectorMeshes)
            /\ BagCardinality(scenes'[i].shells) = 3
            /\ BagToSet(scenes'[i].shells) = {"tracker", "ecal", "hcal"}
            /\ \A k \in 1..3 :
                  scenes'[i].detectorMeshes[k].visible = scenes'[i].showDetector
       /\ (sceneLast'.op = "toggleDetector" /\ scenes' # scenes) =>
            LET i == sceneLast'.inst
            IN  /\ scenes'[i].showDetector = ~scenes[i].showDetector
                /\ \A k \in 1..3 :
                      scenes'[i].detectorMeshes[k] =
                          [scenes[i].detectorMeshes[k] EXCEPT
                              !.visible = ~scenes[i].detectorMeshes[k].visible]
                /\ scenes'[i].shells = scenes[i].shells
                /\ scenes'[i].particleMeshes = scenes[i].particleMeshes
                /\ scenes'[i].objects = scenes[i].objects]_vars

\* C26 witness: the detector of a scene that shows an event of two particles
\* has just been hidden, after the parent passed another configuration: the
\* three shells are invisible, still of the default geometry, and the four
\* per-event primitives are in the scene
C26_Witness ==
    /\ sceneLast.op = "toggleDetector"
    /\ ~scenes[sceneLast.inst].showDetector
    /\ \A k \in 1..3 : ~scenes[sceneLast.inst].detectorMeshes[k].visible
    /\ scenes[sceneLast.inst].detectorConfig # NullConfig
    /\ ShellsBuiltFrom(sceneLast.inst, DefaultGeometry)
    /\ Len(scenes[sceneLast.inst].particleMeshes) = 4
    /\ BagCardinality(scenes[sceneLast.inst].objects) = 4

----------------------------------------------------------------------------
(* Overlapping fetches *)

\* C27: whenever a fetchEvent or fetchEvents call is in flight, loading is
\* true, also when several such calls overlap and one of them has settled.
C27_LoadingWhileInFlight ==
    (\E k \in 1..Len(pending) : pending[k].op \in LoadingOps) => state.loading

\* loadLatestEvent resumes in this step, after the fetchEvents it awaited
ResumesNow ==
    /\ microtasks # <<>>
    /\ Head(microtasks).task = "loadLatestEvent"
    /\ microtasks' = Tail(microtasks)

\* C28: when loadLatestEvent resumes after its fetchEvents settled, with
\* success or with failure, and the store's events is not empty, currentEvent
\* becomes the first element of events and nothing else changes: after a
\* failed fetch that is the first element of the list an earlier fetch left,
\* and error holds the failure's message.
C28_StaleListSelected ==
    [][ResumesNow =>
          /\ last.op = "getEvents"
          /\ (Len(state.events) > 0) =>
                state' = [state EXCEPT !.currentEvent = state.events[1]]
          /\ (Len(state.events) = 0) => state' = state
          /\ ~last.ok =>
                /\ state'.events = state.events
                /\ state'.error = last.message]_vars

\* C28 witness: the fetchEvents of loadLatestEvent, the second request of
\* the store, has failed; events is the list the first request left, its
\* first element is selected and error holds the message
C28_Witness ==
    /\ httpCount = 2
    /\ pending = <<>>
    /\ microtasks = <<>>
    /\ last.op = "getEvents"
    /\ last.caller = "loadLatestEvent"
    /\ ~last.ok
    /\ Len(state.events) > 0
    /\ state.currentEvent = state.events[1]
    /\ state.error = last.message

----------------------------------------------------------------------------
(* A configuration once published *)

\* C29: when the getDetectorConfigs call of fetchDetectorConfigs fails, or
\* returns null or an empty list, detectorConfig is left as it was: a
\* configuration an earlier call published stays published.
C29_ConfigKept ==
    [][(/\ DeliveredNow
        /\ last'.op = "getDetectorConfigs"
        /\ \/ ~last'.ok
           \/ last'.body.isNull
           \/ Len(last'.body.items) = 0)
       => state'.detectorConfig = state.detectorConfig]_vars

\* C29 witness: the second of two fetchDetectorConfigs calls has failed and
\* the configuration the first one published is still there
C29_Witness ==
    /\ httpCount = 2
    /\ pending = <<>>
    /\ last.op = "getDetectorConfigs"
    /\ ~last.ok
    /\ ~last.overtaken
    /\ state.detectorConfig # NullConfig
    /\ state.error = last.message
    /\ state.currentEvent = Null
    /\ state.events = <<>>
    /\ state.statistics = Null

----------------------------------------------------------------------------
(* The variable a chart names *)

\* C30: a chart names the variable of the request whose response it shows.
\* When a histogram response is delivered and a chart is constructed from
\* it, the chart's dataset label and the label in its title are those of the
\* variable that was sent in that request, whatever has been selected since.
C30_ChartNamesRequestedVariable ==
    [][(/\ HistDeliveredNow
        /\ histLast'.ok
        /\ Len(charts') > Len(charts))
       => LET chart == charts'[Len(charts')]
          IN  /\ chart.data = histLast'.body.values
              /\ chart.label = getVariableLabel(histLast'.variable)
              /\ chart.title[1] = getVariableLabel(histLast'.variable)]_vars

====
